---------------------------- MODULE Spec2Model ----------------------------
(***************************************************************************)
(* A model of callTree.py: the digram coder of cscope symbols, the parser  *)
(* of the cscope cross-reference stream, the per-file end-line indexes,    *)
(* the caller resolver and the recursive caller-tree walker.               *)
(*                                                                         *)
(* Characters are ISO-8859-1 code points (naturals below 256, line 99) and *)
(* every Python str is a sequence of them.  A Python dict is a sequence of *)
(* <<key, value>> pairs in insertion order.                                *)
(***************************************************************************)
EXTENDS Integers, Sequences, FiniteSets, TLC

VARIABLES
  phase,              \* which part of the program the behaviour is in
  coderIn,            \* the string handed to the symbol coder
  coderOut,           \* what the coder made of it
  coderPc,            \* which coder calls have been made on coderIn
  \* the locals of parseRef
  state, curFileName, curLineNum, curFunctionName, curMacroName,
  raised,             \* an exception left the program
  nLines,             \* how many lines of cscope.out parseRef has read
  \* the dicts of loadCscopeDB: symbol -> file -> lines
  definitions, macroDefinitions, macroEnds, functionDefinitions,
  functionEnds, symbolDefinitions, references,
  \* the dicts of buildDefinitionMap: file -> line -> symbols
  definitionMap, functionDefinitionMap, functionEndMap, macroDefinitionMap,
  macroEndMap,
  site,               \* the arguments of the last findCaller call
  caller,             \* what that call returned
  \* the command line: args.symbols, args.depth, args.blacklist and
  \* args.no_position
  symbols, argsDepth, LIST_BLACKLIST, BOOL_NO_POSITION,
  traversed,          \* self.traversed: symbol -> list of its callers
  trees,              \* self.trees: root -> tree
  rootIdx,            \* buildTree is at self.symbols[rootIdx] (from 1)
  call,               \* the findAllCaller call that is being entered
  stack,              \* the findAllCaller calls that are in their loop
  run,                \* the number of this run of the program
  firstTrees,         \* self.trees at the end of the first run
  cscope,             \* the lines of cscope.out, when the run fixes them
  \* a call of binarySearch on its own: lineNumbers, lineNumber, and what
  \* the call did
  searchNumbers, searchLine, searchIndex

-----------------------------------------------------------------------------
(* Python str and dict                                                     *)

\* The printable 7-bit characters in code point order, from 32 to 126.
Printable ==
  << " ", "!", "quote", "#", "$", "%", "&", "'", "(", ")", "*", "+", ",", "-",
     ".", "/", "0", "1", "2", "3", "4", "5", "6", "7", "8", "9", ":", ";",
     "<", "=", ">", "?", "@", "A", "B", "C", "D", "E", "F", "G", "H", "I",
     "J", "K", "L", "M", "N", "O", "P", "Q", "R", "S", "T", "U", "V", "W",
     "X", "Y", "Z", "[", "backslash", "]", "^", "_", "backtick", "a", "b", "c",
     "d", "e",
     "f", "g", "h", "i", "j", "k", "l", "m", "n", "o", "p", "q", "r", "s",
     "t", "u", "v", "w", "x", "y", "z", "{", "|", "}", "~" >>

\* ord(c) of a one-character string; "tab", "quote", "backslash" and
\* "backtick" name the characters a TLA+ string cannot hold.
ord(c) ==
  IF c = "tab" THEN 9
  ELSE 31 + (CHOOSE i \in 1..Len(Printable) : Printable[i] = c)

\* The Python str written as a tuple of one-character strings.
Str(s) == [i \in 1..Len(s) |-> ord(s[i])]

\* key in d
DictHas(d, k) == \E i \in 1..Len(d) : d[i][1] = k

\* d[key]
DictGet(d, k) == d[CHOOSE i \in 1..Len(d) : d[i][1] = k][2]

\* d[key] = value: a new key goes last, a known key keeps its place.
DictSet(d, k, v) ==
  IF DictHas(d, k)
  THEN [i \in 1..Len(d) |-> IF d[i][1] = k THEN <<k, v>> ELSE d[i]]
  ELSE Append(d, <<k, v>>)

\* list(d): the keys in insertion order.
DictKeys(d) == [i \in 1..Len(d) |-> d[i][1]]

\* The elements of a list as a set.
Range(s) == {s[i] : i \in 1..Len(s)}

-----------------------------------------------------------------------------
(* The digram coder (loadCscopeContent, encodeSymbol, decodeSymbol)        *)

\* 16 most frequent first chars
dichar1 ==
  Str(<< " ", "t", "e", "i", "s", "a", "p", "r", "n", "l", "(", "o", "f",
         ")", "=", "c" >>)

\* 8 most frequent second chars
dichar2 == Str(<< " ", "t", "n", "e", "r", "p", "l", "a" >>)

\* dicode1[ord(dichar1[i])] = i * 8 + 1, every other entry 0 (i from 0).
dicode1(c) ==
  IF \E i \in 1..Len(dichar1) : dichar1[i] = c
  THEN LET i == CHOOSE j \in 1..Len(dichar1) :
                  /\ dichar1[j] = c
                  /\ \A k \in 1..Len(dichar1) : dichar1[k] = c => k <= j
       IN (i - 1) * 8 + 1
  ELSE 0

\* dicode2[ord(dichar2[i])] = i + 1, every other entry 0 (i from 0).
dicode2(c) ==
  IF \E i \in 1..Len(dichar2) : dichar2[i] = c
  THEN LET i == CHOOSE j \in 1..Len(dichar2) :
                  /\ dichar2[j] = c
                  /\ \A k \in 1..Len(dichar2) : dichar2[k] = c => k <= j
       IN (i - 1) + 1
  ELSE 0

\* dicodeCompress with the octal 0o200 read as the decimal 200.
dicodeCompressDecimal(char1, char2) ==
  (200 - 2) + dicode1(char1) + dicode2(char2)

\* chr((0o200 - 2) + dicode1[ord(char1)] + dicode2[ord(char2)])
dicodeCompress(char1, char2) == (128 - 2) + dicode1(char1) + dicode2(char2)

\* The pairs c1 + c2 in the order the two loops visit them.
DigramPairs ==
  [n \in 1..(Len(dichar1) * Len(dichar2)) |->
     << dichar1[((n - 1) \div Len(dichar2)) + 1],
        dichar2[((n - 1) % Len(dichar2)) + 1] >>]

\* self.encodeMap: pair -> code; a pair written twice keeps the last code.
encodeMap ==
  [p \in Range(DigramPairs) |->
     LET n == CHOOSE m \in 1..Len(DigramPairs) :
                /\ DigramPairs[m] = p
                /\ \A k \in 1..Len(DigramPairs) : DigramPairs[k] = p => k <= m
     IN dicodeCompress(DigramPairs[n][1], DigramPairs[n][2])]

\* self.decodeMap: code -> pair; a code written twice keeps the last pair.
decodeMap ==
  [code \in {dicodeCompress(DigramPairs[n][1], DigramPairs[n][2]) :
               n \in 1..Len(DigramPairs)} |->
     LET n == CHOOSE m \in 1..Len(DigramPairs) :
                /\ dicodeCompress(DigramPairs[m][1], DigramPairs[m][2]) = code
                /\ \A k \in 1..Len(DigramPairs) :
                     dicodeCompress(DigramPairs[k][1], DigramPairs[k][2]) = code
                       => k <= m
     IN DigramPairs[n]]

\* encodeSymbol without the copy of the last character after the loop.
RECURSIVE encodeLoopNoTail(_, _, _)
encodeLoopNoTail(symbol, i, encodedSymbol) ==
  IF i + 1 < Len(symbol)
  THEN LET curCode == << symbol[i + 1], symbol[i + 2] >>
       IN IF curCode \in DOMAIN encodeMap
          THEN encodeLoopNoTail(symbol, i + 2,
                                Append(encodedSymbol, encodeMap[curCode]))
          ELSE encodeLoopNoTail(symbol, i + 1,
                                Append(encodedSymbol, symbol[i + 1]))
  ELSE encodedSymbol

\* The while loop of encodeSymbol from index i (from 0) with encodedSymbol
\* so far, and the copy of the last character after it.
RECURSIVE encodeLoop(_, _, _)
encodeLoop(symbol, i, encodedSymbol) ==
  IF i + 1 < Len(symbol)
  THEN LET curCode == << symbol[i + 1], symbol[i + 2] >>
       IN IF curCode \in DOMAIN encodeMap
          THEN encodeLoop(symbol, i + 2, Append(encodedSymbol, encodeMap[curCode]))
          ELSE encodeLoop(symbol, i + 1, Append(encodedSymbol, symbol[i + 1]))
  ELSE IF i < Len(symbol)
       THEN Append(encodedSymbol, symbol[Len(symbol)])
       ELSE encodedSymbol

encodeSymbol(symbol) ==
  IF Len(symbol) < 2 THEN symbol ELSE encodeLoop(symbol, 0, << >>)

\* decodeSymbol with the two characters of a pair in the wrong order.
RECURSIVE decodeSymbolSwapped(_)
decodeSymbolSwapped(symbol) ==
  IF symbol = << >> THEN << >>
  ELSE (IF Head(symbol) \in DOMAIN decodeMap
        THEN << decodeMap[Head(symbol)][2], decodeMap[Head(symbol)][1] >>
        ELSE << Head(symbol) >>) \o decodeSymbolSwapped(Tail(symbol))

\* symbol.replace(code, decodeMap[code]) for every code.  A replacement is
\* two 7-bit characters, so it never makes an occurrence of another code and
\* the replacements amount to one pass over the characters.
RECURSIVE decodeSymbol(_)
decodeSymbol(symbol) ==
  IF symbol = << >> THEN << >>
  ELSE (IF Head(symbol) \in DOMAIN decodeMap
        THEN decodeMap[Head(symbol)]
        ELSE << Head(symbol) >>) \o decodeSymbol(Tail(symbol))


-----------------------------------------------------------------------------
(* The parser of the cross-reference stream (parseRef and what it calls)   *)

STR_DEFAULT_FILENAME == Str(<< "m", "a", "i", "n", ".", "c" >>)
STR_DEFAULT_FUNCTION == Str(<< "m", "a", "i", "n" >>)
STR_DEFAULT_MACRO    == Str(<< "m", "a", "c", "r", "o" >>)
STR_NONE             == Str(<< "N", "o", "n", "e" >>)

STR_DEFINE_HEAD           == ord("#")
STR_DEFINE_END_HEAD       == ord(")")
STR_DEFINITION_HEAD       == ord("$")
STR_ENUM_HEAD             == ord("e")
STR_FILENAME_HEAD         == ord("@")
STR_FUNCTION_END_HEAD     == ord("}")
STR_MARK_HEAD             == ord("m")
STR_REFERENCE_HEAD        == ord("backtick")
STR_STRUCT_HEAD           == ord("s")
STR_TYPEDEF_HEAD          == ord("t")
STR_CLASS_DEFINITION_HEAD == ord("c")

ENUM_NORMAL == 0
ENUM_EMPTY  == 1
ENUM_DEFINE == 2

\* c.isnumeric() of a character below 256: the digits, and the superscripts
\* and fractions of ISO-8859-1.
isnumeric(c) == c \in (48..57) \cup {178, 179, 185, 188, 189, 190}

\* RE_ISWORD.match(c): [\w\x80\xff] on a character below 256.
RE_ISWORD(c) ==
  c \in (48..57) \cup (65..90) \cup {95} \cup (97..122) \cup {128, 170}
        \cup (178..179) \cup {181} \cup (185..186) \cup (188..190)
        \cup (192..214) \cup (216..246) \cup (248..255)

\* s.split(sep) on a one-character separator.
RECURSIVE splitFrom(_, _, _, _)
splitFrom(s, sep, i, cur) ==
  IF i > Len(s) THEN << cur >>
  ELSE IF s[i] = sep THEN << cur >> \o splitFrom(s, sep, i + 1, << >>)
  ELSE splitFrom(s, sep, i + 1, Append(cur, s[i]))

split(s, sep) == splitFrom(s, sep, 1, << >>)

\* int(s) succeeds: s is a string of decimal digits.  (No string of the
\* model holds a sign, an underscore or white space around digits, which
\* int() would take too.)
IsDecimal(s) == s /= << >> /\ \A i \in 1..Len(s) : s[i] \in 48..57

\* int(s) of a string of decimal digits.
RECURSIVE int(_)
int(s) ==
  IF s = << >> THEN 0
  ELSE 10 * int(SubSeq(s, 1, Len(s) - 1)) + (s[Len(s)] - 48)

\* "%s" % n, or "%d" % n, of a natural number.
RECURSIVE str(_)
str(n) == IF n < 10 THEN << 48 + n >> ELSE Append(str(n \div 10), 48 + (n % 10))

\* addRef, addDef, addFuncDef, addFuncEnd, addSymbolDef, addMacroDef and
\* addMacroEnd are the same code on seven dicts: symbol -> file -> lines.
addTo(d, filePath, lineNumber, symbol) ==
  LET d1     == IF DictHas(d, symbol) THEN d ELSE DictSet(d, symbol, << >>)
      files  == DictGet(d1, symbol)
      files1 == IF DictHas(files, filePath) THEN files
                ELSE DictSet(files, filePath, << >>)
  IN DictSet(d1, symbol,
             DictSet(files1, filePath,
                     Append(DictGet(files1, filePath), lineNumber)))

encodeFileLineSymbol(fileName, lineNumber, symbol) ==
  fileName \o << ord(",") >> \o str(lineNumber) \o << ord(",") >> \o symbol

\* The locals of parseRef and the dicts of loadCscopeDB before the first
\* line; raised says that an exception left parseRef.
ParserStart ==
  [ state               |-> ENUM_NORMAL,
    curFileName         |-> STR_DEFAULT_FILENAME,
    curLineNum          |-> 0,
    curFunctionName     |-> STR_DEFAULT_FUNCTION,
    curMacroName        |-> STR_DEFAULT_MACRO,
    definitions         |-> << >>,
    macroDefinitions    |-> << >>,
    macroEnds           |-> << >>,
    functionDefinitions |-> << >>,
    functionEnds        |-> << >>,
    symbolDefinitions   |-> << >>,
    references          |-> << >>,
    raised              |-> FALSE ]

\* Find reference in define macro: the last test of the loop body.
parseWord(p, line) ==
  IF RE_ISWORD(line[1])
  THEN [p EXCEPT !.references = addTo(@, p.curFileName, p.curLineNum, line)]
  ELSE p

\* The body of "if line[0] == '\t'" on a line of at least two characters.
parseMark(p, line) ==
  LET lineHead == line[2]
      lineEnd  == SubSeq(line, 3, Len(line))
  IN
  IF lineHead = STR_REFERENCE_HEAD
  THEN [p EXCEPT !.references = addTo(@, p.curFileName, p.curLineNum, lineEnd)]
  ELSE IF p.state /= ENUM_DEFINE /\ lineHead = STR_DEFINE_HEAD
  THEN [p EXCEPT
          !.state = ENUM_DEFINE,
          !.definitions = addTo(@, p.curFileName, p.curLineNum, lineEnd),
          !.macroDefinitions = addTo(@, p.curFileName, p.curLineNum, lineEnd),
          !.curMacroName =
             encodeFileLineSymbol(p.curFileName, p.curLineNum, lineEnd)]
  ELSE IF p.state = ENUM_DEFINE /\ lineHead = STR_DEFINE_END_HEAD
  THEN [p EXCEPT
          !.state = ENUM_NORMAL,
          !.macroEnds = addTo(@, p.curFileName, p.curLineNum, p.curMacroName),
          !.curMacroName = STR_DEFAULT_MACRO]
  ELSE IF lineHead = STR_DEFINITION_HEAD
  THEN [p EXCEPT
          !.definitions = addTo(@, p.curFileName, p.curLineNum, lineEnd),
          !.functionDefinitions = addTo(@, p.curFileName, p.curLineNum, lineEnd),
          !.curFunctionName =
             encodeFileLineSymbol(p.curFileName, p.curLineNum, lineEnd)]
  ELSE IF lineHead = STR_FUNCTION_END_HEAD
  THEN [p EXCEPT
          !.functionEnds =
             addTo(@, p.curFileName, p.curLineNum, p.curFunctionName),
          !.curFunctionName = STR_DEFAULT_FUNCTION]
  ELSE IF lineHead \in { STR_CLASS_DEFINITION_HEAD, STR_STRUCT_HEAD,
                         STR_TYPEDEF_HEAD, STR_ENUM_HEAD, STR_MARK_HEAD }
  THEN [p EXCEPT
          !.definitions = addTo(@, p.curFileName, p.curLineNum, lineEnd),
          !.symbolDefinitions = addTo(@, p.curFileName, p.curLineNum, lineEnd)]
  ELSE IF lineHead = STR_FILENAME_HEAD
  THEN [p EXCEPT !.curFileName = lineEnd, !.curLineNum = 1]
  ELSE parseWord(p, line)

\* One turn of "for line in cscope".
parseLine(p, line) ==
  IF p.state /= ENUM_DEFINE /\ line = << >>
  THEN [p EXCEPT !.state = ENUM_EMPTY]
  ELSE IF line = << >> \/ line[1] = ord(" ")
  THEN p
  ELSE IF p.state = ENUM_EMPTY /\ isnumeric(line[1])
  THEN LET token == split(line, ord(" "))[1]
       IN IF IsDecimal(token)
          THEN [p EXCEPT !.curLineNum = int(token), !.state = ENUM_NORMAL]
          ELSE [p EXCEPT !.raised = TRUE]            \* ValueError of int()
  ELSE IF line[1] = ord("tab")
  THEN IF Len(line) < 2
       THEN [p EXCEPT !.raised = TRUE]               \* IndexError of line[1]
       ELSE parseMark(p, line)
  ELSE parseWord(p, line)

\* parseRef on a whole list of lines; nothing runs after an exception.
RECURSIVE parseRef(_, _)
parseRef(p, lines) ==
  IF lines = << >> \/ p.raised THEN p
  ELSE parseRef(parseLine(p, Head(lines)), Tail(lines))

-----------------------------------------------------------------------------
(* The per-file indexes (buildDefinitionMap) and the resolver (findCaller) *)

\* result[file_path][line_number].append(symbol)
mapAppend(result, file_path, line_number, symbol) ==
  LET r1    == IF DictHas(result, file_path) THEN result
               ELSE DictSet(result, file_path, << >>)
      lines == DictGet(r1, file_path)
      l1    == IF DictHas(lines, line_number) THEN lines
               ELSE DictSet(lines, line_number, << >>)
  IN DictSet(r1, file_path,
             DictSet(l1, line_number,
                     Append(DictGet(l1, line_number), symbol)))

\* The three loops of _buildDefinitionMap from symbol s, file f and line n
\* (each counted from 1).
RECURSIVE buildLoop(_, _, _, _, _)
buildLoop(defs, s, f, n, result) ==
  IF s > Len(defs) THEN result
  ELSE LET symbol == defs[s][1]
           info   == defs[s][2]
       IN IF f > Len(info)
          THEN buildLoop(defs, s + 1, 1, 1, result)
          ELSE IF n > Len(info[f][2])
          THEN buildLoop(defs, s, f + 1, 1, result)
          ELSE buildLoop(defs, s, f, n + 1,
                         mapAppend(result, info[f][1], info[f][2][n], symbol))

\* _buildDefinitionMap(definitions)
_buildDefinitionMap(defs) == buildLoop(defs, 1, 1, 1, << >>)

\* decodeFileLineSymbol raises: too many values to unpack, or the int() of
\* the line number fails.
decodeRaises(fileLineSymbol) ==
  LET splitted == split(fileLineSymbol, ord(","))
  IN Len(splitted) > 3 \/ (Len(splitted) = 3 /\ ~ IsDecimal(splitted[2]))

\* decodeFileLineSymbol when it returns: [fileName, lineNumber, symbol].
decodeFileLineSymbol(fileLineSymbol) ==
  LET splitted == split(fileLineSymbol, ord(","))
  IN IF Len(splitted) < 3
     THEN << STR_DEFAULT_FILENAME, 0, STR_NONE >>
     ELSE << splitted[1], int(splitted[2]), splitted[3] >>

ENUM_GREATER_OR_EQUAL == 0
ENUM_LESS_OR_EQUAL    == 1

\* The first while loop of binarySearch; lineNumbers is indexed from 0 in
\* the code.  bound says that middle has been assigned.
RECURSIVE searchLoop(_, _, _, _, _)
searchLoop(lineNumbers, lineNumber, left, right, found) ==
  IF left <= right
  THEN LET middle == (left + right) \div 2
       IN IF lineNumbers[middle + 1] = lineNumber
          THEN [callerLine |-> lineNumbers[middle + 1], middle |-> middle,
                bound |-> TRUE]
          ELSE IF lineNumbers[middle + 1] > lineNumber
          THEN searchLoop(lineNumbers, lineNumber, left, middle - 1,
                          [callerLine |-> 0, middle |-> middle, bound |-> TRUE])
          ELSE searchLoop(lineNumbers, lineNumber, middle + 1, right,
                          [callerLine |-> 0, middle |-> middle, bound |-> TRUE])
  ELSE found

\* while middle > 0 and lineNumbers[middle] >= lineNumber: middle -= 1
RECURSIVE stepDown(_, _, _)
stepDown(lineNumbers, lineNumber, middle) ==
  IF middle > 0 /\ lineNumbers[middle + 1] >= lineNumber
  THEN stepDown(lineNumbers, lineNumber, middle - 1)
  ELSE middle

\* The second loop of the adjustment as if it were not there.
stepUpSkipped(lineNumbers, lineNumber, middle) == middle

\* while middle + 1 < len(lineNumbers) and lineNumbers[middle] < lineNumber:
\*   middle += 1
RECURSIVE stepUp(_, _, _)
stepUp(lineNumbers, lineNumber, middle) ==
  IF middle + 1 < Len(lineNumbers) /\ lineNumbers[middle + 1] < lineNumber
  THEN stepUp(lineNumbers, lineNumber, middle + 1)
  ELSE middle

\* binarySearch raises: no turn of the loop assigned middle, and the
\* adjustment reads it (UnboundLocalError).
binarySearchRaises(lineNumbers, lineNumber, mode) ==
  /\ lineNumbers = << >>
  /\ mode \in {ENUM_LESS_OR_EQUAL, ENUM_GREATER_OR_EQUAL}

\* binarySearch(lineNumbers, mode) when it returns; lineNumber is the
\* argument of the enclosing findCaller.
binarySearch(lineNumbers, lineNumber, mode) ==
  LET found == searchLoop(lineNumbers, lineNumber, 0, Len(lineNumbers) - 1,
                          [callerLine |-> 0, middle |-> 0, bound |-> FALSE])
  IN IF found.callerLine = 0
     THEN IF mode = ENUM_LESS_OR_EQUAL
          THEN stepDown(lineNumbers, lineNumber,
                        stepUp(lineNumbers, lineNumber, found.middle))
          ELSE IF mode = ENUM_GREATER_OR_EQUAL
          THEN stepUp(lineNumbers, lineNumber,
                      stepDown(lineNumbers, lineNumber, found.middle))
          ELSE -1
     ELSE found.middle

\* The symbols of the extents that end at endLineNumber and hold
\* lineNumber, in list order.
RECURSIVE matchInfos(_, _, _)
matchInfos(infos, endLineNumber, lineNumber) ==
  IF infos = << >> THEN << >>
  ELSE LET decoded == decodeFileLineSymbol(Head(infos))
       IN (IF decoded[2] <= lineNumber /\ endLineNumber >= lineNumber
           THEN << decoded[3] >> ELSE << >>)
          \o matchInfos(Tail(infos), endLineNumber, lineNumber)

\* One of the two lookups of findCaller, in the index endMap: "raise",
\* "result" with a non-empty list, or "none" when the code goes on.
lookupEnd(endMap, filePath, lineNumber) ==
  IF ~ DictHas(endMap, filePath) THEN [kind |-> "none"]
  ELSE
    LET lineNumbers == DictKeys(DictGet(endMap, filePath))
    IN IF binarySearchRaises(lineNumbers, lineNumber, ENUM_GREATER_OR_EQUAL)
       THEN [kind |-> "raise"]
       ELSE
         LET endIndex == binarySearch(lineNumbers, lineNumber,
                                      ENUM_GREATER_OR_EQUAL)
         IN IF endIndex > -1
            THEN LET endLineNumber == lineNumbers[endIndex + 1]
                     infos == DictGet(DictGet(endMap, filePath), endLineNumber)
                 IN IF \E i \in 1..Len(infos) : decodeRaises(infos[i])
                    THEN [kind |-> "raise"]
                    ELSE LET result ==
                               matchInfos(infos, endLineNumber, lineNumber)
                         IN IF Len(result) > 0
                            THEN [kind |-> "result", result |-> result]
                            ELSE [kind |-> "none"]
            ELSE [kind |-> "none"]

\* findCaller with the function index consulted before the macro index.
findCallerFunctionFirst(macroEnds_, functionEnds_, filePath, lineNumber) ==
  LET function == lookupEnd(functionEnds_, filePath, lineNumber)
  IN IF function.kind /= "none" THEN function
     ELSE lookupEnd(macroEnds_, filePath, lineNumber)

\* findCaller(filePath, lineNumber, symbol) over the two end indexes: the
\* macro index first, the function index when it gave nothing, else None.
findCallerIn(macroEnds_, functionEnds_, filePath, lineNumber) ==
  LET macro == lookupEnd(macroEnds_, filePath, lineNumber)
  IN IF macro.kind /= "none" THEN macro
     ELSE lookupEnd(functionEnds_, filePath, lineNumber)

-----------------------------------------------------------------------------
(* The state of the parser and of the indexes                              *)

coderVars == << coderIn, coderOut, coderPc >>

CoderIdle == coderIn = << >> /\ coderOut = << >> /\ coderPc = "idle"

parserVars ==
  << state, curFileName, curLineNum, curFunctionName, curMacroName, raised,
     nLines >>

dictVars ==
  << definitions, macroDefinitions, macroEnds, functionDefinitions,
     functionEnds, symbolDefinitions, references >>

mapVars ==
  << definitionMap, functionDefinitionMap, functionEndMap,
     macroDefinitionMap, macroEndMap >>

resolverVars == << site, caller >>

\* The locals and dicts as the record parseLine works on.
ParserNow ==
  [ state               |-> state,
    curFileName         |-> curFileName,
    curLineNum          |-> curLineNum,
    curFunctionName     |-> curFunctionName,
    curMacroName        |-> curMacroName,
    definitions         |-> definitions,
    macroDefinitions    |-> macroDefinitions,
    macroEnds           |-> macroEnds,
    functionDefinitions |-> functionDefinitions,
    functionEnds        |-> functionEnds,
    symbolDefinitions   |-> symbolDefinitions,
    references          |-> references,
    raised              |-> raised ]

\* The locals and dicts are those of the record p.
ParserIs(p) ==
  /\ state = p.state
  /\ curFileName = p.curFileName
  /\ curLineNum = p.curLineNum
  /\ curFunctionName = p.curFunctionName
  /\ curMacroName = p.curMacroName
  /\ definitions = p.definitions
  /\ macroDefinitions = p.macroDefinitions
  /\ macroEnds = p.macroEnds
  /\ functionDefinitions = p.functionDefinitions
  /\ functionEnds = p.functionEnds
  /\ symbolDefinitions = p.symbolDefinitions
  /\ references = p.references
  /\ raised = p.raised

\* The five maps of buildDefinitionMap are those of the dicts of p.
MapsAre(p) ==
  /\ definitionMap = _buildDefinitionMap(p.definitions)
  /\ functionDefinitionMap = _buildDefinitionMap(p.functionDefinitions)
  /\ functionEndMap = _buildDefinitionMap(p.functionEnds)
  /\ macroDefinitionMap = _buildDefinitionMap(p.macroDefinitions)
  /\ macroEndMap = _buildDefinitionMap(p.macroEnds)

MapsUnbuilt ==
  /\ definitionMap = << >>
  /\ functionDefinitionMap = << >>
  /\ functionEndMap = << >>
  /\ macroDefinitionMap = << >>
  /\ macroEndMap = << >>

ResolverIdle == site = << >> /\ caller = [kind |-> "idle"]

walkerVars ==
  << symbols, argsDepth, LIST_BLACKLIST, BOOL_NO_POSITION, traversed, trees,
     rootIdx, call, stack, run, firstTrees >>

NoCall == [depth |-> -1]

inputVars == << cscope, searchNumbers, searchLine, searchIndex >>

\* No stream is fixed, and no call of binarySearch on its own is made.
NoSearch == [kind |-> "idle"]

SearchIdle ==
  searchNumbers = << >> /\ searchLine = 0 /\ searchIndex = NoSearch

InputIdle == cscope = << >> /\ SearchIdle

WalkerIdle ==
  /\ symbols = << >> /\ argsDepth = 0 /\ LIST_BLACKLIST = << >>
  /\ BOOL_NO_POSITION = FALSE
  /\ traversed = << >> /\ trees = << >> /\ rootIdx = 0
  /\ call = NoCall /\ stack = << >> /\ run = 0 /\ firstTrees = << >>

ParserIdle == ParserIs(ParserStart) /\ nLines = 0 /\ MapsUnbuilt /\ ResolverIdle

\* findCaller(filePath, lineNumber, symbol) of the program.
findCaller(filePath, lineNumber) ==
  findCallerIn(macroEndMap, functionEndMap, filePath, lineNumber)

-----------------------------------------------------------------------------
(* The parser on any stream of lines, then the indexes, then the resolver  *)

\* parseRef reads at most this many lines.
MaxLines == 5

\* The lines of the stream: a blank line, line-number headers, a file name,
\* the start and end of a function and of a macro, and a reference.
ParseLines ==
  { << >>,
    Str(<< "1" >>),
    Str(<< "2" >>),
    Str(<< "tab", "@", "a" >>),
    Str(<< "tab", "$", "f" >>),
    Str(<< "tab", "}" >>),
    Str(<< "tab", "#", "M" >>),
    Str(<< "tab", ")" >>),
    Str(<< "tab", "backtick", "x" >>) }

InitParse ==
  /\ phase = "parse"
  /\ CoderIdle
  /\ ParserIdle
  /\ WalkerIdle
  /\ InputIdle

\* One turn of the loop of parseRef, on any line.
parseRefStep ==
  /\ phase = "parse" /\ ~ raised /\ nLines < MaxLines
  /\ \E line \in ParseLines :
       LET p == parseLine(ParserNow, line)
       IN /\ state' = p.state
          /\ curFileName' = p.curFileName
          /\ curLineNum' = p.curLineNum
          /\ curFunctionName' = p.curFunctionName
          /\ curMacroName' = p.curMacroName
          /\ definitions' = p.definitions
          /\ macroDefinitions' = p.macroDefinitions
          /\ macroEnds' = p.macroEnds
          /\ functionDefinitions' = p.functionDefinitions
          /\ functionEnds' = p.functionEnds
          /\ symbolDefinitions' = p.symbolDefinitions
          /\ references' = p.references
          /\ raised' = p.raised
  /\ nLines' = nLines + 1
  /\ UNCHANGED << phase, coderVars, mapVars, resolverVars, walkerVars,
                  inputVars >>

\* The stream ends: buildDefinitionMap.
buildDefinitionMap ==
  /\ phase = "parse" /\ ~ raised /\ nLines >= Len(cscope)
  /\ phase' = "built"
  /\ definitionMap' = _buildDefinitionMap(definitions)
  /\ functionDefinitionMap' = _buildDefinitionMap(functionDefinitions)
  /\ functionEndMap' = _buildDefinitionMap(functionEnds)
  /\ macroDefinitionMap' = _buildDefinitionMap(macroDefinitions)
  /\ macroEndMap' = _buildDefinitionMap(macroEnds)
  /\ UNCHANGED << coderVars, parserVars, dictVars, resolverVars, walkerVars,
                  inputVars >>

\* The sites findAllCaller asks about: <<file, line, symbol>> of every
\* recorded reference.
SitesOf(refs) ==
  UNION { UNION { { << refs[s][2][f][1], refs[s][2][f][2][n], refs[s][1] >> :
                      n \in 1..Len(refs[s][2][f][2]) } :
                  f \in 1..Len(refs[s][2]) } :
          s \in 1..Len(refs) }

\* findCaller(filePath, lineNumber, symbol) for a recorded reference.
findCallerStep ==
  /\ phase = "built" /\ ~ raised
  /\ \E st \in SitesOf(references) :
       /\ site' = st
       /\ caller' = findCaller(st[1], st[2])
  /\ raised' = (caller'.kind = "raise")
  /\ UNCHANGED << phase, coderVars, state, curFileName, curLineNum,
                  curFunctionName, curMacroName, nLines, dictVars, mapVars,
                  walkerVars, inputVars >>

NextParse == parseRefStep \/ buildDefinitionMap \/ findCallerStep

-----------------------------------------------------------------------------
(* The tree walker (matchBlackList, toFileLine, findAllCaller, buildTree)  *)

STR_TRAVERSED    == "@Traversed"
STR_BLACKLISTED  == "@Blacklisted"
STR_MAX_DEPTH    == "@ReachMaxDepth"
STR_NO_REFERENCE == "@NoReference"

\* A tree is a str (one of the four above) or a dict: name -> entry.  An
\* entry is a tree, or with BOOL_NO_POSITION the dict of 'callee' (the
\* "file,line" of a reference) and 'caller' (a tree).
Leaf(tag)   == [str |-> tag]
Branch(d)   == [dict |-> d]
IsLeaf(t)   == "str" \in DOMAIN t
IsBranch(t) == "dict" \in DOMAIN t

Min(a, b) == IF a < b THEN a ELSE b
Max(a, b) == IF a > b THEN a ELSE b

\* NUM_MAX_DEPTH = max(min(args.depth, 900), 1)
NUM_MAX_DEPTH == Max(Min(argsDepth, 900), 1)

\* The test of line 443, as if it let depth NUM_MAX_DEPTH through.
reachMaxDepthLate(depth) == NUM_MAX_DEPTH /= -1 /\ depth > NUM_MAX_DEPTH

\* if NUM_MAX_DEPTH != -1 and depth >= NUM_MAX_DEPTH
reachMaxDepth(depth) == NUM_MAX_DEPTH /= -1 /\ depth >= NUM_MAX_DEPTH

\* Line 471 as if it were not there: the cache stays as it is.
cacheNothing(symbol, callerList) == traversed

\* self.traversed[symbol] = callerList, before the loop that recurses
cacheCallers(symbol, callerList) == DictSet(traversed, symbol, callerList)

\* re.fullmatch in the place of re.match.
reFullMatch(pattern, string) == pattern = string

\* re.match(pattern, string) for a pattern of literal characters: the
\* pattern is a prefix of the string.
reMatch(pattern, string) ==
  /\ Len(pattern) <= Len(string)
  /\ \A i \in 1..Len(pattern) : pattern[i] = string[i]

\* matchBlackList on the symbol as it is, without decodeSymbol.
matchBlackListRaw(symbol) ==
  /\ Len(LIST_BLACKLIST) /= 0
  /\ \E i \in 1..Len(LIST_BLACKLIST) : reMatch(LIST_BLACKLIST[i], symbol)

matchBlackList(symbol) ==
  /\ Len(LIST_BLACKLIST) /= 0
  /\ LET decodedSymbol == decodeSymbol(symbol)
     IN \E i \in 1..Len(LIST_BLACKLIST) :
          reMatch(LIST_BLACKLIST[i], decodedSymbol)

\* "%s,%d" % (filePath, lineNumber)
toFileLine(filePath, lineNumber) ==
  filePath \o << ord(",") >> \o str(lineNumber)

\* for _caller in caller: refPosition[_caller] = (filePath, lineNumber)
RECURSIVE setPositions(_, _, _)
setPositions(refPosition, callers, position) ==
  IF callers = << >> THEN refPosition
  ELSE setPositions(DictSet(refPosition, Head(callers), position),
                    Tail(callers), position)

\* The two loops over self.references[symbol] from file f and line n (each
\* counted from 1): callerList, refPosition, and whether findCaller raised.
RECURSIVE gatherLoop(_, _, _, _)
gatherLoop(refs, f, n, acc) ==
  IF f > Len(refs) \/ acc.raised THEN acc
  ELSE IF n > Len(refs[f][2]) THEN gatherLoop(refs, f + 1, 1, acc)
  ELSE LET filePath   == refs[f][1]
           lineNumber == refs[f][2][n]
           found      == findCaller(filePath, lineNumber)
       IN IF found.kind = "raise"
          THEN [acc EXCEPT !.raised = TRUE]
          ELSE IF found.kind = "none"
          THEN gatherLoop(refs, f, n + 1, acc)
          ELSE gatherLoop(refs, f, n + 1,
                 [acc EXCEPT
                    !.refPosition = setPositions(@, found.result,
                                                 << filePath, lineNumber >>),
                    !.callerList = @ \o found.result])

gather(symbol) ==
  gatherLoop(DictGet(references, symbol), 1, 1,
             [callerList |-> << >>, refPosition |-> << >>, raised |-> FALSE])

\* list(set(callerList)): the distinct callers in any order, which is that
\* of the hash values of the strings and differs from run to run.
Orders(callerList) ==
  LET distinct == Range(callerList)
      n        == Cardinality(distinct)
  IN { order \in [1..n -> distinct] :
         \A i, j \in 1..n : order[i] = order[j] => i = j }

\* What callerDict[decodedCaller] is set to for the subtree of aCaller.
Entry(frame, aCaller, subtree) ==
  IF BOOL_NO_POSITION
  THEN [callee |-> toFileLine(DictGet(frame.refPosition, aCaller)[1],
                              DictGet(frame.refPosition, aCaller)[2]),
        caller |-> subtree]
  ELSE subtree

\* A findAllCaller call returns tree to where it was made: to buildTree
\* when callers (the calls that are still in their loop) is empty, else to
\* the loop of the innermost of them.
ReturnTo(callers, tree) ==
  IF callers = << >>
  THEN /\ trees' = DictSet(trees, symbols[rootIdx], tree)
       /\ rootIdx' = rootIdx + 1
       /\ stack' = << >>
  ELSE LET top     == callers[Len(callers)]
           aCaller == top.callerList[top.next]
       IN /\ stack' = [callers EXCEPT ![Len(callers)] =
                         [top EXCEPT
                            !.callerDict =
                               DictSet(@, decodeSymbol(aCaller),
                                       Entry(top, aCaller, tree)),
                            !.next = @ + 1]]
          /\ UNCHANGED << trees, rootIdx >>

\* The databases of the walker are those of small C programs in one file:
\* two functions of three lines each, a one-line macro, and one line after
\* them that is outside every body.  A program is the set of its references,
\* << unit, callee >>: the body of the unit of that number (the line after
\* the bodies for the number past the last unit) names the callee.
SymX  == Str(<< "x" >>)
SymF  == Str(<< "f" >>)
SymTe == Str(<< "t", "e" >>)
SymM  == Str(<< "M" >>)

\* A program holds at most this many references.
MaxRefs == 3

Units ==
  << [name |-> SymF,  head |-> STR_DEFINITION_HEAD],
     [name |-> SymTe, head |-> STR_DEFINITION_HEAD],
     [name |-> SymM,  head |-> STR_DEFINE_HEAD] >>

Callees == << SymX, SymF, SymTe, SymM >>

Programs ==
  { refs \in SUBSET ((1..(Len(Units) + 1)) \X (1..Len(Callees))) :
      Cardinality(refs) <= MaxRefs }

\* A line-number header of the stream, and a mark line: a tab, the mark and
\* the symbol as cscope stores it, digram-compressed.
Header(n)          == str(n) \o << ord(" ") >>
Mark(head, symbol) == << ord("tab"), head >> \o encodeSymbol(symbol)

RECURSIVE RenderRefs(_, _, _, _)
RenderRefs(refs, unit, c, lineNumber) ==
  IF c > Len(Callees) THEN << >>
  ELSE (IF << unit, c >> \in refs
        THEN IF lineNumber = 0
             THEN << Mark(STR_REFERENCE_HEAD, Callees[c]) >>
             ELSE << << >>, Header(lineNumber),
                     Mark(STR_REFERENCE_HEAD, Callees[c]) >>
        ELSE << >>)
       \o RenderRefs(refs, unit, c + 1, lineNumber)

\* The lines cscope writes for the unit of number unit, which starts at the
\* line start: a function is its '$' line, its body and its '}' line; a
\* macro is one line from '#' to ')'.
RenderUnit(refs, unit, start) ==
  LET u == Units[unit]
  IN IF u.head = STR_DEFINITION_HEAD
     THEN << << >>, Header(start), Mark(u.head, u.name) >>
          \o RenderRefs(refs, unit, 1, start + 1)
          \o << << >>, Header(start + 2), << ord("tab"), STR_FUNCTION_END_HEAD >> >>
     ELSE << << >>, Header(start), Mark(u.head, u.name) >>
          \o RenderRefs(refs, unit, 1, 0)
          \o << << ord("tab"), STR_DEFINE_END_HEAD >> >>

RECURSIVE RenderFrom(_, _, _)
RenderFrom(refs, unit, start) ==
  IF unit > Len(Units)
  THEN RenderRefs(refs, unit, 1, start)
  ELSE RenderUnit(refs, unit, start)
       \o RenderFrom(refs, unit + 1,
                     IF Units[unit].head = STR_DEFINITION_HEAD
                     THEN start + 3 ELSE start + 1)

\* The stream of the program: the file name, then the units.
Render(refs) ==
  << Mark(STR_FILENAME_HEAD, Str(<< "a", ".", "c" >>)) >>
    \o RenderFrom(refs, 1, 1)

\* The command lines: the roots, -d, -b and -n.
RootLists ==
  { << SymX >>, << SymTe >>, << SymX, SymF >>, << SymF, SymX >>,
    << SymX, SymX >> }
Depths     == { -1, 2, 50 }
BlackLists == { << >>, << Str(<< "t" >>) >> }

\* __init__: the stream is parsed, the indexes are built, and buildTree is
\* about to start.
InitWalk ==
  /\ phase = "walk"
  /\ CoderIdle
  /\ ResolverIdle
  /\ \E refs \in Programs :
       LET p == parseRef(ParserStart, Render(refs))
       IN /\ cscope = Render(refs)
          /\ ParserIs(p) /\ MapsAre(p) /\ nLines = Len(cscope)
  /\ SearchIdle
  /\ symbols \in RootLists
  /\ argsDepth \in Depths
  /\ LIST_BLACKLIST \in BlackLists
  /\ BOOL_NO_POSITION \in BOOLEAN
  /\ traversed = << >> /\ trees = << >> /\ rootIdx = 1
  /\ call = NoCall /\ stack = << >> /\ run = 1 /\ firstTrees = << >>

\* buildTree: the next root, encoded, is looked up at depth 0.
buildTree ==
  /\ phase = "walk" /\ ~ raised
  /\ call = NoCall /\ stack = << >> /\ rootIdx <= Len(symbols)
  /\ call' = [symbol |-> encodeSymbol(symbols[rootIdx]), depth |-> 0]
  /\ UNCHANGED << coderVars, parserVars, dictVars, mapVars, resolverVars,
                  phase, symbols, argsDepth, LIST_BLACKLIST, BOOL_NO_POSITION,
                  traversed, trees, rootIdx, stack, run, firstTrees,
                  inputVars >>

\* The two loops as if they took the lines off the list they walk
\* (lineNumber = refLines.pop()): the lists of the symbol end up empty.
referencesConsumed(symbol, refs) ==
  DictSet(refs, symbol,
          [f \in 1..Len(DictGet(refs, symbol)) |->
             << DictGet(refs, symbol)[f][1], << >> >>])

\* self.references after "references = self.references[symbol]" and the
\* two loops over it: references and refLines are the dict and the lists
\* of the index themselves, not copies, and no statement writes to them;
\* callerList, which "+=" extends in place, is a list of its own.
referencesAfter(symbol, refs) == refs

\* findAllCaller(symbol, depth) up to its loop: one of the four sentinels
\* is returned, or the callers are gathered and cached in self.traversed.
findAllCaller ==
  /\ phase = "walk" /\ ~ raised
  /\ call /= NoCall
  /\ call' = NoCall
  /\ LET symbol == call.symbol
         depth  == call.depth
         early(tag) == /\ ReturnTo(stack, Leaf(tag))
                       /\ UNCHANGED << traversed, raised, references >>
     IN IF reachMaxDepth(depth)
        THEN early(STR_MAX_DEPTH)
        ELSE IF matchBlackList(symbol)
        THEN early(STR_BLACKLISTED)
        ELSE IF DictHas(traversed, symbol)
        THEN early(STR_TRAVERSED)
        ELSE IF ~ DictHas(references, symbol)
        THEN early(STR_NO_REFERENCE)
        ELSE LET gathered == gather(symbol)
             IN IF gathered.raised
                THEN /\ raised' = TRUE
                     /\ UNCHANGED << traversed, trees, rootIdx, stack,
                                     references >>
                ELSE /\ \E callerList \in Orders(gathered.callerList) :
                          /\ traversed' = cacheCallers(symbol, callerList)
                          /\ stack' = Append(stack,
                               [ symbol      |-> symbol,
                                 depth       |-> depth,
                                 callerList  |-> callerList,
                                 next        |-> 1,
                                 callerDict  |-> << >>,
                                 refPosition |-> gathered.refPosition ])
                     /\ references' = referencesAfter(symbol, references)
                     /\ UNCHANGED << raised, trees, rootIdx >>
  /\ UNCHANGED << coderVars, state, curFileName, curLineNum, curFunctionName,
                  curMacroName, nLines, definitions, macroDefinitions,
                  macroEnds, functionDefinitions, functionEnds,
                  symbolDefinitions, mapVars, resolverVars,
                  phase, symbols, argsDepth, LIST_BLACKLIST, BOOL_NO_POSITION,
                  run, firstTrees, inputVars >>

\* One turn of "for caller in callerList" in the innermost call: a caller
\* that is in the cache is entered as @Traversed, if it is not a key of
\* callerDict; any other caller is looked up one level deeper.
forCaller ==
  /\ phase = "walk" /\ ~ raised
  /\ call = NoCall /\ stack /= << >>
  /\ LET top           == stack[Len(stack)]
         aCaller       == top.callerList[top.next]
         decodedCaller == decodeSymbol(aCaller)
     IN /\ top.next <= Len(top.callerList)
        /\ IF DictHas(traversed, aCaller)
           THEN /\ stack' = [stack EXCEPT ![Len(stack)] =
                    [top EXCEPT
                       !.callerDict =
                          IF ~ DictHas(@, aCaller)
                          THEN DictSet(@, decodedCaller,
                                 Entry(top, aCaller, Leaf(STR_TRAVERSED)))
                          ELSE @,
                       !.next = @ + 1]]
                /\ UNCHANGED call
           ELSE /\ call' = [symbol |-> aCaller, depth |-> top.depth + 1]
                /\ UNCHANGED stack
  /\ UNCHANGED << coderVars, parserVars, dictVars, mapVars, resolverVars,
                  phase, symbols, argsDepth, LIST_BLACKLIST, BOOL_NO_POSITION,
                  traversed, trees, rootIdx, run, firstTrees, inputVars >>

\* The tree without a test of len(callerDict): callerDict is returned as
\* it is.
callerTreeUntested(callerDict) == Branch(callerDict)

\* if len(callerDict) == 0: return STR_NO_REFERENCE; return callerDict
callerTree(callerDict) ==
  IF Len(callerDict) = 0 THEN Leaf(STR_NO_REFERENCE) ELSE Branch(callerDict)

\* The loop of the innermost call is over: it returns callerDict, or
\* @NoReference when callerDict is empty.
returnCallerDict ==
  /\ phase = "walk" /\ ~ raised
  /\ call = NoCall /\ stack /= << >>
  /\ LET top == stack[Len(stack)]
     IN /\ top.next > Len(top.callerList)
        /\ ReturnTo(SubSeq(stack, 1, Len(stack) - 1),
                    callerTree(top.callerDict))
  /\ UNCHANGED << coderVars, parserVars, dictVars, mapVars, resolverVars,
                  phase, symbols, argsDepth, LIST_BLACKLIST, BOOL_NO_POSITION,
                  traversed, call, run, firstTrees, inputVars >>

\* buildTree has returned.
Built ==
  /\ phase = "walk" /\ ~ raised
  /\ call = NoCall /\ stack = << >> /\ rootIdx > Len(symbols)

\* The program is run once more on the same database with the same command
\* line: __init__ starts from an empty cache and no trees.
runAgain ==
  /\ Built /\ run = 1
  /\ run' = 2
  /\ firstTrees' = trees
  /\ traversed' = << >>
  /\ trees' = << >>
  /\ rootIdx' = 1
  /\ UNCHANGED << coderVars, parserVars, dictVars, mapVars, resolverVars,
                  phase, symbols, argsDepth, LIST_BLACKLIST, BOOL_NO_POSITION,
                  call, stack, inputVars >>

NextWalk == buildTree \/ findAllCaller \/ forCaller \/ returnCallerDict

NextRerun ==
  buildTree \/ findAllCaller \/ forCaller \/ returnCallerDict \/ runAgain

-----------------------------------------------------------------------------
(* The parser on a stream that is fixed when the run starts                *)

\* A stream is made of at most this many units.
MaxUnits == 4

\* The units cscope writes: the record of a file name, the blank line and
\* the header of a source line, and the records of a function start, a
\* function end, a macro start, a macro end and a reference.
StreamUnits ==
  { << Mark(STR_FILENAME_HEAD, Str(<< "a" >>)) >>,
    << << >>, Header(1) >>,
    << << >>, Header(2) >>,
    << Mark(STR_DEFINITION_HEAD, SymF) >>,
    << << ord("tab"), STR_FUNCTION_END_HEAD >> >>,
    << Mark(STR_DEFINE_HEAD, SymM) >>,
    << << ord("tab"), STR_DEFINE_END_HEAD >> >>,
    << Mark(STR_REFERENCE_HEAD, SymX) >> }

\* Units of a stream that is cut short or is of another format: a line that
\* is one tab, a header that is no number, a record of an unknown kind, and
\* a function whose name holds a comma.
BrokenUnits ==
  { << << ord("tab") >> >>,
    << << >>, Str(<< "1", "a" >>) >>,
    << Str(<< "tab", "~", "z" >>) >>,
    << Mark(STR_DEFINITION_HEAD, Str(<< "a", ",", "b" >>)) >> }

\* The streams of at most n units of the set units.
RECURSIVE StreamsOf(_, _)
StreamsOf(units, n) ==
  IF n <= 0 THEN { << >> }
  ELSE LET shorter == StreamsOf(units, n - 1)
       IN shorter \cup { stream \o unit : stream \in shorter, unit \in units }

Streams ==
  StreamsOf(StreamUnits, MaxUnits)
    \cup StreamsOf(StreamUnits \cup BrokenUnits, MaxUnits - 1)

\* loadCscopeDB: the stream is read, the dicts are empty, and parseRef is
\* about to start.
InitStream ==
  /\ phase = "parse"
  /\ CoderIdle
  /\ ParserIdle
  /\ WalkerIdle
  /\ SearchIdle
  /\ cscope \in Streams

\* One turn of "for line in cscope" on the stream of the run.
forLine ==
  /\ phase = "parse" /\ ~ raised /\ nLines < Len(cscope)
  /\ LET p == parseLine(ParserNow, cscope[nLines + 1])
     IN /\ state' = p.state
        /\ curFileName' = p.curFileName
        /\ curLineNum' = p.curLineNum
        /\ curFunctionName' = p.curFunctionName
        /\ curMacroName' = p.curMacroName
        /\ definitions' = p.definitions
        /\ macroDefinitions' = p.macroDefinitions
        /\ macroEnds' = p.macroEnds
        /\ functionDefinitions' = p.functionDefinitions
        /\ functionEnds' = p.functionEnds
        /\ symbolDefinitions' = p.symbolDefinitions
        /\ references' = p.references
        /\ raised' = p.raised
  /\ nLines' = nLines + 1
  /\ UNCHANGED << phase, coderVars, mapVars, resolverVars, walkerVars,
                  inputVars >>

NextStream == forLine \/ buildDefinitionMap \/ findCallerStep

-----------------------------------------------------------------------------
(* binarySearch on its own: one list of line numbers and one line          *)

\* A list holds at most this many line numbers, none above MaxLineNumber.
MaxEntries    == 3
MaxLineNumber == 4

\* The lists binarySearch is called on: the keys of an index of one file,
\* in the order of the records (no key twice), and the empty list.
LineNumberLists ==
  UNION { { l \in [1..n -> 0..MaxLineNumber] :
              \A i, j \in 1..n : l[i] = l[j] => i = j } : n \in 0..MaxEntries }

InitSearch ==
  /\ phase = "search"
  /\ CoderIdle
  /\ ParserIdle
  /\ WalkerIdle
  /\ cscope = << >>
  /\ searchNumbers \in LineNumberLists
  /\ searchLine \in 0..(MaxLineNumber + 1)
  /\ searchIndex = NoSearch

\* binarySearch(lineNumbers, mode) in a findCaller(filePath, lineNumber):
\* it returns an index (from 0) or -1, or it raises.
binarySearchCall(mode) ==
  /\ phase = "search" /\ searchIndex = NoSearch
  /\ searchIndex' =
       IF binarySearchRaises(searchNumbers, searchLine, mode)
       THEN [kind |-> "raise", mode |-> mode]
       ELSE [kind |-> "index", mode |-> mode,
             index |-> binarySearch(searchNumbers, searchLine, mode)]
  /\ UNCHANGED << phase, coderVars, parserVars, dictVars, mapVars,
                  resolverVars, walkerVars, cscope, searchNumbers,
                  searchLine >>

NextSearch ==
  \/ binarySearchCall(ENUM_GREATER_OR_EQUAL)
  \/ binarySearchCall(ENUM_LESS_OR_EQUAL)

-----------------------------------------------------------------------------
(* The coder on its own: one string, encoded and decoded in both orders    *)

\* A string is at most this long.
MaxSymbolLen == 3

\* The characters the strings are made of: characters of both alphabets, of
\* the first only, of neither, and two digram codes.
CoderChars ==
  Range(Str(<< " ", "t", "e", "c", "x" >>))
    \cup {dicodeCompress(ord("t"), ord("e")), dicodeCompress(ord(" "), ord("t"))}

RECURSIVE StringsUpTo(_, _)
StringsUpTo(chars, n) ==
  IF n = 0 THEN {<< >>}
  ELSE LET shorter == StringsUpTo(chars, n - 1)
       IN shorter \cup {Append(s, c) : s \in shorter, c \in chars}

CoderStrings == StringsUpTo(CoderChars, MaxSymbolLen)

InitCoder ==
  /\ phase = "coder"
  /\ coderIn \in CoderStrings
  /\ coderOut = << >>
  /\ coderPc = "input"
  /\ ParserIdle
  /\ WalkerIdle
  /\ InputIdle

\* encodeSymbol(s)
EncodeInput ==
  /\ phase = "coder" /\ coderPc = "input"
  /\ coderOut' = encodeSymbol(coderIn)
  /\ coderPc' = "encoded"
  /\ UNCHANGED << phase, coderIn, parserVars, dictVars, mapVars, resolverVars,
                  walkerVars, inputVars >>

\* decodeSymbol(s)
DecodeInput ==
  /\ phase = "coder" /\ coderPc = "input"
  /\ coderOut' = decodeSymbol(coderIn)
  /\ coderPc' = "decoded"
  /\ UNCHANGED << phase, coderIn, parserVars, dictVars, mapVars, resolverVars,
                  walkerVars, inputVars >>

\* decodeSymbol(encodeSymbol(s))
DecodeEncoded ==
  /\ phase = "coder" /\ coderPc = "encoded"
  /\ coderOut' = decodeSymbol(coderOut)
  /\ coderPc' = "encoded-decoded"
  /\ UNCHANGED << phase, coderIn, parserVars, dictVars, mapVars, resolverVars,
                  walkerVars, inputVars >>

\* encodeSymbol(decodeSymbol(s))
EncodeDecoded ==
  /\ phase = "coder" /\ coderPc = "decoded"
  /\ coderOut' = encodeSymbol(coderOut)
  /\ coderPc' = "decoded-encoded"
  /\ UNCHANGED << phase, coderIn, parserVars, dictVars, mapVars, resolverVars,
                  walkerVars, inputVars >>

NextCoder == EncodeInput \/ DecodeInput \/ DecodeEncoded \/ EncodeDecoded

vars ==
  << phase, coderVars, parserVars, dictVars, mapVars, resolverVars,
     walkerVars, inputVars >>

SpecCoder == InitCoder /\ [][NextCoder]_vars

SpecParse == InitParse /\ [][NextParse]_vars

SpecWalk == InitWalk /\ [][NextWalk]_vars

SpecRerun == InitWalk /\ [][NextRerun]_vars

SpecStream == InitStream /\ [][NextStream]_vars

SpecSearch == InitSearch /\ [][NextSearch]_vars

-----------------------------------------------------------------------------
(* The digram round trips                                                  *)

\* Every character is a printable 7-bit character.
IsPrintable7Bit(s) == \A i \in 1..Len(s) : s[i] >= 32 /\ s[i] <= 126

\* c is what the greedy encoder emits: no 7-bit character of the first
\* alphabet stands right before a character whose decoded form starts with
\* a character of the second alphabet.
IsGreedyCompressed(c) ==
  \A i \in 1..(Len(c) - 1) :
    ~ ( /\ c[i] < 128
        /\ << c[i], Head(decodeSymbol(<< c[i + 1] >>)) >> \in DOMAIN encodeMap )

\* C9: for every string s of printable 7-bit characters, of any length,
\* decodeSymbol(encodeSymbol(s)) = s.
C9_DecodeAfterEncode ==
  (coderPc = "encoded-decoded" /\ IsPrintable7Bit(coderIn))
    => coderOut = coderIn

\* A string with a coded pair and a last character left over went through
\* the round trip.
C9_Witness ==
  /\ coderPc = "encoded-decoded"
  /\ IsPrintable7Bit(coderIn)
  /\ Len(coderIn) = 3
  /\ Len(encodeSymbol(coderIn)) = 2

\* C10 as stated: for every string c of 7-bit characters and digram codes,
\* encodeSymbol(decodeSymbol(c)) = c.
C10_EncodeAfterDecodeOfAny ==
  coderPc = "decoded-encoded" => coderOut = coderIn

\* C10, amended: for every string c of 7-bit characters and digram codes
\* that is greedily compressed, encodeSymbol(decodeSymbol(c)) = c.
C10_EncodeAfterDecode ==
  (coderPc = "decoded-encoded" /\ IsGreedyCompressed(coderIn))
    => coderOut = coderIn

\* A greedily compressed string that holds a digram code and a 7-bit
\* character went through the round trip.
C10_Witness ==
  /\ coderPc = "decoded-encoded"
  /\ IsGreedyCompressed(coderIn)
  /\ \E i \in 1..Len(coderIn) : coderIn[i] >= 128
  /\ \E i \in 1..Len(coderIn) : coderIn[i] < 128

-----------------------------------------------------------------------------
(* The resolver against what the parser recorded                           *)

\* The lines the dict d holds for symbol in file.
LinesOf(d, symbol, file) ==
  IF DictHas(d, symbol) /\ DictHas(DictGet(d, symbol), file)
  THEN Range(DictGet(DictGet(d, symbol), file))
  ELSE { }

\* The parser recorded an extent of symbol in file that holds line: a
\* definition of symbol at a line start of file (in starts), and an end of
\* that definition at a line end of file (in ends), start <= line <= end.
HasExtentAround(starts, ends, symbol, file, line) ==
  \E start \in LinesOf(starts, symbol, file) :
    \E end \in LinesOf(ends, encodeFileLineSymbol(file, start, symbol), file) :
      start <= line /\ line <= end

\* C7: for every recorded reference site (file, line) and every symbol S
\* that findCaller returns for it, the parser recorded an extent of S (of a
\* function or of a macro) in that same file with start <= line <= end.
C7_ExtentContainment ==
  (phase = "built" /\ caller.kind = "result") =>
    \A i \in 1..Len(caller.result) :
      \/ HasExtentAround(functionDefinitions, functionEnds,
                         caller.result[i], site[1], site[2])
      \/ HasExtentAround(macroDefinitions, macroEnds,
                         caller.result[i], site[1], site[2])

\* C8: when the macro-end index gives an extent around the site, findCaller
\* returns what that lookup gave, all of it symbols of macro definitions,
\* whatever the function-end index holds; what the function-end index gives
\* is returned only when the macro-end index gave nothing.
C8_MacroPrecedence ==
  (phase = "built" /\ caller.kind = "result") =>
    LET macro    == lookupEnd(macroEndMap, site[1], site[2])
        function == lookupEnd(functionEndMap, site[1], site[2])
    IN IF macro.kind = "result"
       THEN /\ caller.result = macro.result
            /\ \A i \in 1..Len(caller.result) :
                 DictHas(macroDefinitions, caller.result[i])
       ELSE caller.result = function.result

\* A reference inside a macro body that lies inside a function body was
\* resolved: both indexes hold an extent around the site.
C8_Witness ==
  /\ phase = "built" /\ caller.kind = "result"
  /\ lookupEnd(macroEndMap, site[1], site[2]).kind = "result"
  /\ lookupEnd(functionEndMap, site[1], site[2]).kind = "result"
  /\ lookupEnd(functionEndMap, site[1], site[2]).result /= caller.result

-----------------------------------------------------------------------------
(* The caller trees                                                        *)

\* The tree of an entry of a callerDict.
TreeOf(entry) == IF "caller" \in DOMAIN entry THEN entry.caller ELSE entry

\* The occurrences of symbols in the tree t of the symbol name that sits at
\* depth under the names of path: the name, the depth, the path, and the
\* tag, which is "Branch" for a dict and the sentinel for a leaf.
RECURSIVE Nodes(_, _, _, _)
Nodes(name, t, depth, path) ==
  { [ name  |-> name, depth |-> depth, path |-> path,
      tag   |-> IF IsLeaf(t) THEN t.str ELSE "Branch" ] }
  \cup
  ( IF IsBranch(t)
    THEN UNION { Nodes(t.dict[i][1], TreeOf(t.dict[i][2]), depth + 1,
                       Append(path, name)) : i \in 1..Len(t.dict) }
    ELSE { } )

\* Every occurrence in the output, self.trees.
Output ==
  UNION { Nodes(trees[r][1], trees[r][2], 0, << >>) : r \in 1..Len(trees) }

\* The occurrences of name in the output, and those that are a Branch.
Occurrences(name) == { n \in Output : n.name = name }
Branches(name)    == { n \in Occurrences(name) : n.tag = "Branch" }

\* The caller graph of the database: the callers the resolver gives for the
\* references of a symbol.
CallersOf(symbol) ==
  IF DictHas(references, symbol) THEN Range(gather(symbol).callerList)
  ELSE { }

\* The symbols that are reached from those of from by caller edges, those
\* of from included.
RECURSIVE Reach(_)
Reach(from) ==
  LET more == from \cup UNION { CallersOf(symbol) : symbol \in from }
  IN IF more = from THEN from ELSE Reach(more)

OnCycle(symbol) == symbol \in Reach(CallersOf(symbol))

Roots == { encodeSymbol(symbols[i]) : i \in 1..Len(symbols) }

\* The symbols on a cycle of the caller graph that is reachable from a root.
CycleSymbols == { symbol \in Reach(Roots) : OnCycle(symbol) }

\* A pattern of the blacklist matches the decoded name at position 0.
Blacklisted(name) ==
  \E i \in 1..Len(LIST_BLACKLIST) :
    /\ Len(LIST_BLACKLIST[i]) <= Len(name)
    /\ SubSeq(name, 1, Len(LIST_BLACKLIST[i])) = LIST_BLACKLIST[i]

\* The symbols of the calls that are in their loop.
Nested == { stack[i].symbol : i \in 1..Len(stack) }

\* What is left of the walk, which every step makes smaller in the order
\* of the dictionary: the roots buildTree has not finished, the symbols with
\* references that are not in the cache, the turns the loops of the nested
\* calls have not finished, and 1 when no call is being entered.
RECURSIVE TurnsLeft(_)
TurnsLeft(frames) ==
  IF frames = << >> THEN 0
  ELSE (Len(Head(frames).callerList) + 1 - Head(frames).next)
       + TurnsLeft(Tail(frames))

Variant ==
  << Len(symbols) + 1 - rootIdx,
     Cardinality(Range(DictKeys(references)) \ Range(DictKeys(traversed))),
     TurnsLeft(stack),
     IF call = NoCall THEN 1 ELSE 0 >>

RECURSIVE Before(_, _)
Before(v, w) ==
  /\ v /= << >>
  /\ \/ Head(v) < Head(w)
     \/ Head(v) = Head(w) /\ Before(Tail(v), Tail(w))

\* A step of the walk: a call that gets to its loop adds its symbol, which
\* has references and was not in the traversal cache, to the cache; the
\* nested calls are of distinct cached symbols, no more of them than there
\* are symbols with references; what is left of the walk gets smaller, and
\* nothing of it is below 0.
WalkShrinks ==
  /\ Len(stack') > Len(stack) =>
       /\ DictHas(references, call.symbol)
       /\ ~ DictHas(traversed, call.symbol)
       /\ DictHas(traversed', call.symbol)
  /\ Cardinality(Nested') = Len(stack')
  /\ \A symbol \in Nested' : DictHas(traversed', symbol)
  /\ Len(stack') <= Len(references)
  /\ Before(Variant', Variant)
  /\ \A i \in 1..Len(Variant') : Variant'[i] >= 0

\* C1: findAllCaller terminates on every database, with self-recursion and
\* mutual recursion: every call that does not return a sentinel at once
\* first adds a symbol that was not in the traversal cache, so the number
\* of nested calls is at most the number of symbols that have references,
\* and every step of the walk makes what is left of it smaller.
C1_Terminates == [][WalkShrinks]_vars

\* The walk went round a cycle of two symbols or more: a call two levels
\* down or deeper found a caller that is one of its ancestors.
C1_Witness ==
  /\ Built
  /\ \E n \in Output :
       /\ n.tag = STR_TRAVERSED
       /\ Len(n.path) >= 2
       /\ \E i \in 1..(Len(n.path) - 1) : n.path[i] = n.name

\* C2 as stated: every symbol on a cycle of the caller graph reachable from
\* a root appears in the output as exactly one Branch, and every other
\* occurrence of it is the leaf @Traversed.
C2_OneBranchPerCycleSymbol ==
  Built =>
    \A symbol \in CycleSymbols :
      /\ Cardinality(Branches(decodeSymbol(symbol))) = 1
      /\ \A n \in Occurrences(decodeSymbol(symbol)) :
           n.tag \in { "Branch", STR_TRAVERSED }

\* No leaf of the output says that the walk was cut short.
NothingCut ==
  \A n \in Output : n.tag \notin { STR_MAX_DEPTH, STR_BLACKLISTED }

RootsDiffer == \A i, j \in 1..Len(symbols) : symbols[i] = symbols[j] => i = j

\* C2, amended: no symbol appears as more than one Branch in the output;
\* every occurrence of a symbol on a cycle reachable from a root that is not
\* a Branch is one of the leaves @Traversed, @ReachMaxDepth and
\* @Blacklisted; and when no root is given twice and no leaf of the output
\* is @ReachMaxDepth or @Blacklisted, such a symbol appears as exactly one
\* Branch and every other occurrence of it is @Traversed.
C2_AtMostOneBranch ==
  Built =>
    /\ \A n \in Output : Cardinality(Branches(n.name)) <= 1
    /\ \A symbol \in CycleSymbols :
         /\ \A n \in Occurrences(decodeSymbol(symbol)) :
              n.tag \in { "Branch", STR_TRAVERSED, STR_MAX_DEPTH,
                          STR_BLACKLISTED }
         /\ (RootsDiffer /\ NothingCut) =>
              /\ Cardinality(Branches(decodeSymbol(symbol))) = 1
              /\ \A n \in Occurrences(decodeSymbol(symbol)) :
                   n.tag \in { "Branch", STR_TRAVERSED }

\* A cycle that was walked whole: a symbol on it is one Branch and one
\* @Traversed or more.
C2_Witness ==
  /\ Built /\ RootsDiffer /\ NothingCut
  /\ \E symbol \in CycleSymbols :
       /\ Cardinality(Branches(decodeSymbol(symbol))) = 1
       /\ Cardinality(Occurrences(decodeSymbol(symbol))) >= 2

\* C3 as stated: no Branch of the output sits at a depth greater than
\* NUM_MAX_DEPTH, and every leaf at depth NUM_MAX_DEPTH is @ReachMaxDepth.
C3_LeavesAtLimitAreMaxDepth ==
  Built =>
    \A n \in Output :
      /\ n.tag = "Branch" => n.depth <= NUM_MAX_DEPTH
      /\ (n.tag /= "Branch" /\ n.depth = NUM_MAX_DEPTH)
           => n.tag = STR_MAX_DEPTH

\* C3, amended: nothing of the output sits at a depth greater than
\* NUM_MAX_DEPTH, and everything at depth NUM_MAX_DEPTH is a leaf,
\* @ReachMaxDepth or @Traversed (a caller that is in the cache is entered
\* as @Traversed without a call, so without the test of the depth); so
\* every Branch sits at a depth less than NUM_MAX_DEPTH.
C3_DepthLimit ==
  Built =>
    \A n \in Output :
      /\ n.depth <= NUM_MAX_DEPTH
      /\ n.depth = NUM_MAX_DEPTH => n.tag \in { STR_MAX_DEPTH, STR_TRAVERSED }

\* The walk was cut at the limit, and a cached caller was entered there.
C3_Witness ==
  /\ Built
  /\ \E n \in Output : n.depth = NUM_MAX_DEPTH /\ n.tag = STR_MAX_DEPTH
  /\ \E n \in Output : n.depth = NUM_MAX_DEPTH /\ n.tag = STR_TRAVERSED

\* C4: at every point of the walk, no symbol whose decoded form a pattern
\* of the blacklist matches at position 0 is a Branch of a tree of the
\* output, as a root or as a caller, and none is a key of the traversal
\* cache.
C4_BlacklistedNeverExpanded ==
  /\ \A n \in Output : Blacklisted(n.name) => n.tag /= "Branch"
  /\ \A i \in 1..Len(traversed) : ~ Blacklisted(decodeSymbol(traversed[i][1]))

\* A symbol that is stored as one digram code was reached as a caller and
\* is on the blacklist.
C4_Witness ==
  /\ Built
  /\ \E n \in Output :
       /\ Blacklisted(n.name) /\ n.depth >= 1
       /\ Len(encodeSymbol(n.name)) < Len(n.name)

\* C5 as stated: every occurrence in the output of a symbol that matches
\* the blacklist is the leaf @Blacklisted, whatever its depth.
C5_AlwaysBlacklistedLeaf ==
  Built =>
    \A n \in Output : Blacklisted(n.name) => n.tag = STR_BLACKLISTED

\* C5, amended: every occurrence in the output of a symbol that matches the
\* blacklist is a leaf: @Blacklisted at a depth less than NUM_MAX_DEPTH, and
\* @ReachMaxDepth at depth NUM_MAX_DEPTH, where the test of the depth comes
\* first.
C5_BlacklistedLeaf ==
  Built =>
    \A n \in Output :
      Blacklisted(n.name) =>
        n.tag = ( IF n.depth < NUM_MAX_DEPTH THEN STR_BLACKLISTED
                  ELSE STR_MAX_DEPTH )

\* A blacklisted symbol was reached above the limit and at the limit.
C5_Witness ==
  /\ Built
  /\ \E n \in Output :
       Blacklisted(n.name) /\ n.depth >= 1 /\ n.tag = STR_BLACKLISTED
  /\ \E n \in Output : Blacklisted(n.name) /\ n.tag = STR_MAX_DEPTH

\* C6: the second run on the same database with the same command line gives
\* the trees of the first run.
C6_RunsAgree == (Built /\ run = 2) => trees = firstTrees

-----------------------------------------------------------------------------
(* The parser and the resolver on any stream                               *)

\* C11: parseRef raises on no stream: whatever the line (one tab, a header
\* that is no decimal number, a record of an unknown kind), it goes on to
\* the next line, to the end of the stream.
C11_ParseRefNeverRaises == phase = "parse" => ~ raised

\* C12: on the indexes of every stream that parseRef read to its end,
\* findCaller (and so findAllCaller, which calls it for every reference)
\* returns and does not raise.
C12_FindCallerNeverRaises == phase = "built" => caller.kind /= "raise"

\* Every extent of the end index endMap, file -> end line -> composite
\* keys, starts at or before its end line.
StartsBeforeEnds(endMap) ==
  \A f \in 1..Len(endMap) :
    \A e \in 1..Len(endMap[f][2]) :
      \A k \in 1..Len(endMap[f][2][e][2]) :
        ~ decodeRaises(endMap[f][2][e][2][k]) =>
          decodeFileLineSymbol(endMap[f][2][e][2][k])[2] <= endMap[f][2][e][1]


\* The reference sites of a symbol, as << file, line >>, and those of them
\* for which findCaller finds an enclosing extent.
SitesOfSymbol(symbol) ==
  IF ~ DictHas(references, symbol) THEN { }
  ELSE LET refs == DictGet(references, symbol)
       IN UNION { { << refs[f][1], refs[f][2][n] >> :
                      n \in 1..Len(refs[f][2]) } : f \in 1..Len(refs) }

Resolves(aSite) == findCaller(aSite[1], aSite[2]).kind = "result"

\* The callers that the sites of the symbol which resolve give.
ResolvedCallers(symbol) ==
  UNION { Range(findCaller(aSite[1], aSite[2]).result) :
            aSite \in { a \in SitesOfSymbol(symbol) : Resolves(a) } }

\* What the innermost call of the symbol returns in a step that ends it:
\* the tree of the root in self.trees, or the tree entered under the name
\* of the symbol in the mapping of the call that made it.
Returned(symbol) ==
  IF stack' = << >>
  THEN DictGet(trees', symbols[rootIdx])
  ELSE TreeOf(DictGet(stack'[Len(stack')].callerDict, decodeSymbol(symbol)))

\* A step of the walk: a call that gets to its loop loops over the callers
\* of the sites that resolve; the children it enters are among them; when
\* its loop is over it returns @NoReference if no site has resolved, and
\* else the mapping of those callers, which has an entry.
UnresolvedSitesDrop ==
  /\ Len(stack') > Len(stack) =>
       Range(stack'[Len(stack')].callerList) = ResolvedCallers(call.symbol)
  /\ Len(stack') = Len(stack) /\ stack' /= << >> =>
       LET top == stack'[Len(stack')]
       IN /\ top.callerList = stack[Len(stack)].callerList
          /\ \A k \in 1..Len(top.callerDict) :
               \E aCaller \in Range(top.callerList) :
                 top.callerDict[k][1] = decodeSymbol(aCaller)
  /\ Len(stack') < Len(stack) =>
       LET top      == stack[Len(stack)]
           resolved == ResolvedCallers(top.symbol)
           returned == Returned(top.symbol)
       IN /\ SitesOfSymbol(top.symbol) /= { }
          /\ resolved = { } => returned = Leaf(STR_NO_REFERENCE)
          /\ resolved /= { } =>
               /\ IsBranch(returned)
               /\ Len(returned.dict) > 0
               /\ Range(DictKeys(returned.dict))
                    = { decodeSymbol(aCaller) : aCaller \in resolved }

\* C13: a reference site for which findCaller finds no enclosing extent
\* gives no child to the mapping of the symbol, and a symbol with
\* references of which every site fails to resolve gives @NoReference,
\* never a mapping without an entry.
C13_UnresolvedSitesDrop == [][UnresolvedSitesDrop]_vars

\* The walk is over; a symbol of the output has references of which none
\* resolves and is @NoReference, and a symbol that is a mapping has a site
\* that does not resolve.
C13_Witness ==
  /\ Built
  /\ \E n \in Output :
       /\ n.tag = STR_NO_REFERENCE
       /\ SitesOfSymbol(encodeSymbol(n.name)) /= { }
       /\ \A aSite \in SitesOfSymbol(encodeSymbol(n.name)) : ~ Resolves(aSite)
  /\ \E n \in Output :
       /\ n.tag = "Branch"
       /\ \E aSite \in SitesOfSymbol(encodeSymbol(n.name)) : ~ Resolves(aSite)


\* C14: the depth limit in effect is args.depth clamped into 1..900, and
\* with an args.depth of -1 there is no limit: no symbol of the output is
\* @ReachMaxDepth.
C14_MinusOneDisablesLimit ==
  phase = "walk" =>
    /\ NUM_MAX_DEPTH \in 1..900
    /\ argsDepth \in 1..900 => NUM_MAX_DEPTH = argsDepth
    /\ argsDepth = -1 => \A n \in Output : n.tag /= STR_MAX_DEPTH

\* C15: after any stream, every extent of the function-end index and of
\* the macro-end index has start_line <= end_line, also with a file name
\* record between the start of a definition and its end.
C15_StartBeforeEnd ==
  phase = "built" =>
    StartsBeforeEnds(functionEndMap) /\ StartsBeforeEnds(macroEndMap)

\* The record at place k of the stream is a mark line of the kind head.
IsRecord(k, head) ==
  /\ Len(cscope[k]) >= 2
  /\ cscope[k][1] = ord("tab")
  /\ cscope[k][2] = head

\* The line at place k of the stream is the header of a source line: it
\* follows a blank line and starts with a decimal number.
IsHeader(k) ==
  /\ k > 1 /\ cscope[k - 1] = << >>
  /\ cscope[k] /= << >>
  /\ IsDecimal(split(cscope[k], ord(" "))[1])

\* The source line of the block that holds place k of the stream: that of
\* the last header up to k, or 1 after a file name record, 0 before both.
RECURSIVE BlockLine(_)
BlockLine(k) ==
  IF k = 0 THEN 0
  ELSE IF IsHeader(k) THEN int(split(cscope[k], ord(" "))[1])
  ELSE IF IsRecord(k, STR_FILENAME_HEAD) THEN 1
  ELSE BlockLine(k - 1)

\* The file of place k of the stream.
RECURSIVE FileAt(_)
FileAt(k) ==
  IF k = 0 THEN STR_DEFAULT_FILENAME
  ELSE IF IsRecord(k, STR_FILENAME_HEAD)
  THEN SubSeq(cscope[k], 3, Len(cscope[k]))
  ELSE FileAt(k - 1)

\* The place of the '#' record whose body holds place k, or 0: the last
\* '#' record before k that no ')' record closed before k and that did not
\* itself stand in a macro body.
RECURSIVE MacroOpenAt(_)
MacroOpenAt(k) ==
  IF k <= 1 THEN 0
  ELSE LET before == MacroOpenAt(k - 1)
       IN IF before /= 0
          THEN IF IsRecord(k - 1, STR_DEFINE_END_HEAD) THEN 0 ELSE before
          ELSE IF IsRecord(k - 1, STR_DEFINE_HEAD) THEN k - 1 ELSE 0

\* C16: for a macro whose body holds headers of source lines between its
\* '#' record and its ')' record, the extent the parser records runs from
\* the line of the '#' record to the line of the block of the ')' record,
\* and every reference of the body is recorded at the line of its own
\* block.
C16_MacroBodyLines ==
  (phase = "parse" /\ ~ raised /\ nLines = Len(cscope)) =>
    \A k \in 1..Len(cscope) :
      LET open == MacroOpenAt(k)
      IN open /= 0 =>
           /\ IsRecord(k, STR_DEFINE_END_HEAD) =>
                BlockLine(k) \in
                  LinesOf(macroEnds,
                          encodeFileLineSymbol(
                            FileAt(open), BlockLine(open),
                            SubSeq(cscope[open], 3, Len(cscope[open]))),
                          FileAt(k))
           /\ IsRecord(k, STR_REFERENCE_HEAD) =>
                BlockLine(k) \in
                  LinesOf(references, SubSeq(cscope[k], 3, Len(cscope[k])),
                          FileAt(k))

\* The end lines of every file of the end index endMap are in ascending
\* order.
EndLinesAscend(endMap) ==
  \A f \in 1..Len(endMap) :
    LET lineNumbers == DictKeys(endMap[f][2])
    IN \A i, j \in 1..Len(lineNumbers) :
         i < j => lineNumbers[i] < lineNumbers[j]

\* C17: for every file, the end lines findCaller hands to binarySearch,
\* the keys of the function-end map and of the macro-end map of the file,
\* are in ascending order, whatever the order of the records of the stream.
C17_EndLinesSorted ==
  phase = "built" =>
    EndLinesAscend(functionEndMap) /\ EndLinesAscend(macroEndMap)


-----------------------------------------------------------------------------
(* binarySearch                                                            *)

\* The list is in ascending order without a number twice.
Ascending(lineNumbers) ==
  \A i, j \in 1..Len(lineNumbers) : i < j => lineNumbers[i] < lineNumbers[j]

\* A call in the mode GREATER_OR_EQUAL has returned.
SearchedGreaterOrEqual ==
  /\ phase = "search"
  /\ searchIndex /= NoSearch
  /\ searchIndex.mode = ENUM_GREATER_OR_EQUAL

\* C18: on a non-empty ascending list of distinct line numbers with a
\* number >= lineNumber, binarySearch in the mode GREATER_OR_EQUAL returns
\* the index of the smallest number >= lineNumber, which is the index of
\* lineNumber when it is in the list.
C18_SmallestGreaterOrEqual ==
  ( /\ SearchedGreaterOrEqual
    /\ searchNumbers /= << >>
    /\ Ascending(searchNumbers)
    /\ \E i \in 1..Len(searchNumbers) : searchNumbers[i] >= searchLine )
  => /\ searchIndex.kind = "index"
     /\ searchIndex.index \in 0..(Len(searchNumbers) - 1)
     /\ searchNumbers[searchIndex.index + 1] >= searchLine
     /\ \A i \in 1..Len(searchNumbers) :
          searchNumbers[i] >= searchLine
            => searchNumbers[searchIndex.index + 1] <= searchNumbers[i]
     /\ \A i \in 1..Len(searchNumbers) :
          searchNumbers[i] = searchLine => searchIndex.index = i - 1

\* A call has returned the index 1 of the smallest number >= lineNumber
\* in an ascending list of three numbers, none of them lineNumber.
C18_Witness ==
  /\ SearchedGreaterOrEqual
  /\ Len(searchNumbers) = 3 /\ Ascending(searchNumbers)
  /\ searchNumbers[1] < searchLine /\ searchLine < searchNumbers[2]
  /\ searchIndex.kind = "index" /\ searchIndex.index = 1

\* C19: binarySearch in the mode GREATER_OR_EQUAL returns -1 on the empty
\* list, -1 when lineNumber is greater than every number of the list, and
\* 0 when lineNumber is smaller than every number of the list.
C19_EdgeCases ==
  SearchedGreaterOrEqual =>
    /\ searchNumbers = << >>
         => searchIndex.kind = "index" /\ searchIndex.index = -1
    /\ ( /\ searchNumbers /= << >>
         /\ \A i \in 1..Len(searchNumbers) : searchLine > searchNumbers[i] )
         => searchIndex.kind = "index" /\ searchIndex.index = -1
    /\ ( /\ searchNumbers /= << >> /\ Ascending(searchNumbers)
         /\ \A i \in 1..Len(searchNumbers) : searchLine < searchNumbers[i] )
         => searchIndex.kind = "index" /\ searchIndex.index = 0


-----------------------------------------------------------------------------
(* The digram table                                                        *)

\* C20: the digram table gives the 16 x 8 pairs of a character of dichar1
\* and a character of dichar2 128 codes that differ from one another, all
\* of them in 0x80..0xFF and so none a 7-bit ASCII character; encodeMap
\* and decodeMap are bijections between the pairs and the codes, each the
\* inverse of the other.
C20_DigramTable ==
  phase = "coder" =>
    /\ Len(dichar1) = 16 /\ Len(dichar2) = 8
    /\ DOMAIN encodeMap = Range(dichar1) \X Range(dichar2)
    /\ Cardinality(DOMAIN encodeMap) = 128
    /\ Cardinality(DOMAIN decodeMap) = 128
    /\ \A code \in DOMAIN decodeMap : code \in 128..255 /\ code \notin 0..127
    /\ Cardinality({ encodeMap[p] : p \in DOMAIN encodeMap }) = 128
    /\ \A p \in DOMAIN encodeMap :
         encodeMap[p] \in DOMAIN decodeMap /\ decodeMap[encodeMap[p]] = p
    /\ \A code \in DOMAIN decodeMap :
         decodeMap[code] \in DOMAIN encodeMap
           /\ encodeMap[decodeMap[code]] = code

\* encodeSymbol has turned a pair of the table into its code, and the
\* table gives the pair back for the code.
C20_Witness ==
  /\ phase = "coder" /\ coderPc = "encoded"
  /\ coderIn \in DOMAIN encodeMap
  /\ coderOut = << encodeMap[coderIn] >>
  /\ coderOut[1] \in 128..255
  /\ decodeMap[coderOut[1]] = coderIn


-----------------------------------------------------------------------------
(* The composite keys of the extents                                       *)

\* The << file, line, symbol >> of the definitions recorded in the index
\* defs (symbol -> file -> lines): what encodeFileLineSymbol was called on.
TriplesOf(defs) ==
  UNION { UNION { { << defs[d][2][f][1], defs[d][2][f][2][n], defs[d][1] >> :
                      n \in 1..Len(defs[d][2][f][2]) } :
                  f \in 1..Len(defs[d][2]) } :
          d \in 1..Len(defs) }

RecordedTriples == TriplesOf(functionDefinitions) \cup TriplesOf(macroDefinitions)

KeyOf(triple) == encodeFileLineSymbol(triple[1], triple[2], triple[3])

\* C21: for every file name, start line and symbol the parser records for
\* a function or a macro, decodeFileLineSymbol gives back the three from
\* the key encodeFileLineSymbol makes of them, and two recorded triples
\* that differ have keys that differ.
C21_KeyRoundTrip ==
  phase = "parse" =>
    /\ \A triple \in RecordedTriples :
         /\ ~ decodeRaises(KeyOf(triple))
         /\ decodeFileLineSymbol(KeyOf(triple)) = triple
    /\ \A t, u \in RecordedTriples : KeyOf(t) = KeyOf(u) => t = u



\* C23: every symbol findCaller returns for a site is one the parser
\* recorded as the definition of a function or of a macro, and none is a
\* placeholder (the default function name, the default macro name or
\* 'None'), for any stream, with a '}' record that no '$' record opened.
C23_CallersAreDefinitions ==
  (phase = "built" /\ caller.kind = "result") =>
    \A i \in 1..Len(caller.result) :
      /\ \/ DictHas(functionDefinitions, caller.result[i])
         \/ DictHas(macroDefinitions, caller.result[i])
      /\ caller.result[i] \notin
           { STR_NONE, STR_DEFAULT_FUNCTION, STR_DEFAULT_MACRO }

-----------------------------------------------------------------------------
(* The traversal cache and the indexes during the walk                     *)

\* The calls on the recursion path have their callers in the cache, under
\* their symbols.
PathIsCached(frames, cache) ==
  \A i \in 1..Len(frames) :
    /\ DictHas(cache, frames[i].symbol)
    /\ DictGet(cache, frames[i].symbol) = frames[i].callerList

\* A step of the walk: when a call gets to its loop its distinct callers
\* are in the cache under its symbol, and no call for one of them has been
\* made; when findAllCaller is entered for a caller, every symbol on the
\* recursion path is a key of the cache; a turn of the loop on a caller
\* that is a key of the cache enters @Traversed for it and makes no call,
\* and a turn on any other caller makes the call one level deeper.
CachedBeforeRecursion ==
  /\ Len(stack') > Len(stack) =>
       /\ PathIsCached(stack', traversed')
       /\ call' = NoCall
       /\ stack'[Len(stack')].next = 1
       /\ stack'[Len(stack')].callerDict = << >>
  /\ (call' /= NoCall /\ stack' /= << >>) =>
       /\ PathIsCached(stack', traversed')
       /\ call'.depth = Len(stack')
  /\ (call = NoCall /\ stack /= << >> /\ Len(stack') = Len(stack)) =>
       LET top     == stack[Len(stack)]
           aCaller == top.callerList[top.next]
       IN IF DictHas(traversed, aCaller)
          THEN /\ call' = NoCall
               /\ TreeOf(DictGet(stack'[Len(stack')].callerDict,
                                 decodeSymbol(aCaller)))
                    = Leaf(STR_TRAVERSED)
               /\ stack'[Len(stack')].next = top.next + 1
          ELSE /\ call' = [symbol |-> aCaller, depth |-> top.depth + 1]
               /\ stack' = stack

\* C22: the distinct callers of a symbol are put in the traversal cache
\* under the symbol before a recursive call for one of them is made:
\* whenever findAllCaller is entered for a caller every symbol on the
\* recursion path is a key of the cache, and a caller that is a key when
\* the loop reaches it becomes @Traversed without a recursive call.
C22_CachedBeforeRecursion == [][CachedBeforeRecursion]_vars

\* findAllCaller is being entered at depth 2 from a loop that has entered
\* @Traversed for a caller that was in the cache.
C22_Witness ==
  /\ phase = "walk" /\ call /= NoCall /\ call.depth = 2
  /\ Len(stack) = 2
  /\ \E k \in 1..Len(stack[2].callerDict) :
       TreeOf(stack[2].callerDict[k][2]) = Leaf(STR_TRAVERSED)


\* C24: when buildTree has returned, every root that the blacklist does
\* not match and that has a reference site which resolves to a caller is
\* mapped to a Branch in self.trees, whatever the other roots and their
\* order, also when the root is given twice or was reached as a caller in
\* the tree of a root before it.
C24_RootIsBranch ==
  Built =>
    \A r \in 1..Len(symbols) :
      ( /\ ~ matchBlackList(encodeSymbol(symbols[r]))
        /\ ResolvedCallers(encodeSymbol(symbols[r])) /= { } )
      => /\ DictHas(trees, symbols[r])
         /\ IsBranch(DictGet(trees, symbols[r]))


\* A step of the walk leaves the indexes of loadCscopeDB and of
\* buildDefinitionMap, the state of the parser and the command line as
\* they are.
IndexesUnchanged ==
  phase = "walk" =>
    /\ phase' = "walk"
    /\ UNCHANGED << dictVars, mapVars >>
    /\ UNCHANGED << parserVars, symbols, argsDepth, LIST_BLACKLIST,
                    BOOL_NO_POSITION >>

\* C25: the walk leaves every index unchanged: no call of findAllCaller or
\* of findCaller, for any root and at any depth, modifies the reference
\* index, the definition maps, the function-end map or the macro-end map;
\* only the traversal cache and the trees change.
C25_IndexesUnchanged == [][IndexesUnchanged]_vars

\* buildTree has returned a tree two levels deep: findAllCaller has run its
\* loops over the reference index, and findCaller has read both end maps.
C25_Witness ==
  /\ Built
  /\ Len(traversed) >= 2
  /\ \E n \in Output : n.depth = 2
  /\ references /= << >> /\ functionEndMap /= << >> /\ macroEndMap /= << >>

=============================================================================
